---- MODULE Spec2Model ----
(***************************************************************************)
(* Model of the aport-policies repository: the three policy evaluators     *)
(* (finance.transaction.execute.v1, governance.data.access.v1,             *)
(* legal.contract.review.v1) and the example Express route handlers.       *)
(*                                                                         *)
(* JavaScript values.  A property that may be undefined is modelled as a   *)
(* set with at most one element: {} is undefined, {v} is the value v.      *)
(* An array is modelled as the set of its elements, except where the       *)
(* order is observable (the list of missing fields).                       *)
(***************************************************************************)
EXTENDS Integers, Sequences, FiniteSets, TLC

VARIABLES
  policy,        \* the policy being evaluated
  passport,      \* the passport handed to the evaluator
  context,       \* the context handed to the evaluator
  decision,      \* {} before the evaluation, {the returned decision} after it
  evaluations,   \* number of evaluations made for this passport today
  allowCount     \* idempotency key -> number of allow decisions returned for it

evalVars == <<policy, passport, context, decision, evaluations, allowCount>>

VARIABLES
  reqs,              \* request id -> the HTTP request being served and its progress
  idempotencyStore,  \* the idempotency records: <<policy id, key>> of decisions acted upon
  dailyTotal,        \* <<capability, currency>> -> amount processed today
  actionsStarted     \* <<policy id, key>> -> calls of the guarded business action

payVars == <<reqs, idempotencyStore, dailyTotal, actionsStarted>>

VARIABLES
  usage,      \* "pr" | "merge" | "message" -> usage recorded today for the agent
  performed   \* "pr" | "merge" | "message" -> guarded actions completed today

usageVars == <<usage, performed>>

vars == <<evalVars, payVars, usageVars>>

(***************************************************************************)
(* Bounds of the model.                                                    *)
(***************************************************************************)
\* Amounts, row counts and sizes range over -1..MaxAmount.
MaxAmount == 3
\* Largest number of required fields a context of the input family omits.
MaxMissing == 2
\* Evaluations of one passport within a day.
MaxEvaluations == 3
\* Concurrent HTTP requests of one agent.
NumRequests == 2
\* Longest batch of a batch request.
MaxBatch == 2

(***************************************************************************)
(* JavaScript helpers.                                                     *)
(***************************************************************************)
Undefined == {}

\* Fields of a context that hold numbers; every other field holds a string.
NumericFields ==
  {"amount", "row_count", "account_balance_usd", "document_size_mb",
   "contract_value_usd"}

\* Truthiness of a number: neither undefined nor 0.
TruthyNum(o) == o # {} /\ o # {0}

\* Truthiness of a string: neither undefined nor "".
TruthyStr(o) == o # {} /\ o # {""}

\* Truthiness of context[field].
Truthy(c, f) == IF f \in NumericFields THEN TruthyNum(c[f]) ELSE TruthyStr(c[f])

\* array.includes(value), with an undefined value never included.
Includes(arr, o) == \E v \in o : v \in arr

\* (x || [])  for an optional array x.
OrEmpty(o) == IF o = {} THEN {} ELSE CHOOSE a \in o : TRUE

\* array.indexOf(value): 0-based position, -1 when absent.
IndexOf(seq, o) ==
  IF \E i \in 1..Len(seq) : o = {seq[i]}
  THEN (CHOOSE i \in 1..Len(seq) : o = {seq[i]}) - 1
  ELSE -1

(***************************************************************************)
(* Decisions.                                                              *)
(***************************************************************************)
Reason(code, severity, missing) ==
  [code |-> code, severity |-> severity, missing |-> missing]

Deny(code) == [allow |-> FALSE, reasons |-> <<Reason(code, "error", <<>>)>>]

\* Mutant of DenyInvalidContext: one reason per missing field.
DenyInvalidContextPerField(missingFields) ==
  [allow |-> FALSE,
   reasons |-> [i \in 1..Len(missingFields) |->
                  Reason("oap.invalid_context", "error", <<missingFields[i]>>)]]

\* Deny with oap.invalid_context; the message lists the missing fields.
DenyInvalidContext(missingFields) ==
  [allow |-> FALSE,
   reasons |-> <<Reason("oap.invalid_context", "error", missingFields)>>]

\* The limits object the evaluators read: passport.limits?.<a>?.<b>, which is
\* only found when the limits are stored nested.
NestedLimits(p) == IF p.limits.shape = "nested" THEN p.limits.v ELSE [x \in {} |-> {}]

\* passport.limits?.<path>?.<field>
Limit(p, f) == IF f \in DOMAIN NestedLimits(p) THEN NestedLimits(p)[f] ELSE {}

\* passport.capabilities?.some((cap) => cap.id === id)
HasCapability(p, id) == \E caps \in p.capabilities : id \in caps

\* Mutant of MissingFields: only the first missing field is reported.
MissingFieldsFirstOnly(requiredFields, c) ==
  LET all == SelectSeq(requiredFields, LAMBDA f : ~Truthy(c, f)) IN
  IF all = <<>> THEN <<>> ELSE <<Head(all)>>

\* Mutant of MissingFields: idempotency_key is left to the idempotency rule.
MissingFieldsWithoutKey(requiredFields, c) ==
  SelectSeq(requiredFields, LAMBDA f : f # "idempotency_key" /\ ~Truthy(c, f))

\* requiredFields.filter((field) => !context[field])
MissingFields(requiredFields, c) == SelectSeq(requiredFields, LAMBDA f : ~Truthy(c, f))

\* limits.require_assurance_at_least || "L3"
RequiredAssurance(p) ==
  IF TruthyStr(Limit(p, "require_assurance_at_least"))
  THEN Limit(p, "require_assurance_at_least")
  ELSE {"L3"}

\* The assurance test of the finance and governance evaluators.
AssuranceDeniedByEquality(p) ==
  /\ p.assurance_level # RequiredAssurance(p)
  /\ p.assurance_level # {"L4KYC"}
  /\ p.assurance_level # {"L4FIN"}

assuranceLevels == <<"L0", "L1", "L2", "L3", "L4KYC", "L4FIN">>

\* The assurance test of the legal evaluator.
AssuranceDeniedByIndex(p) ==
  IndexOf(assuranceLevels, p.assurance_level) < IndexOf(assuranceLevels, RequiredAssurance(p))

\* Mutant of StatusDenied: the status check forgets revoked passports.
StatusDeniedSuspendedOnly(p) == p.status = {"suspended"}

\* passport.status === "suspended" || passport.status === "revoked"
StatusDenied(p) == p.status = {"suspended"} \/ p.status = {"revoked"}

(***************************************************************************)
(* evaluateFinanceTransactionExecuteV1                                     *)
(***************************************************************************)
FinanceRequiredFields ==
  <<"transaction_type", "amount", "currency", "asset_class",
    "source_account_id", "destination_account_id">>

\* Mutant of AllowedFinance: a result without a verdict.
AllowedFinancePartial == [reasons |-> <<Reason("oap.allowed", "info", <<>>)>>]

AllowedFinance ==
  [allow |-> TRUE, reasons |-> <<Reason("oap.allowed", "info", <<>>)>>]

\* Mutant of ComminglingOfFunds: the destination is not looked at.
ComminglingOfFundsBySourceOnly(c) == c.source_account_type = {"proprietary"}

\* context.source_account_type === "client_funds" &&
\* context.destination_account_type === "proprietary"
ComminglingOfFunds(c) ==
  /\ c.source_account_type = {"client_funds"}
  /\ c.destination_account_type = {"proprietary"}

\* Mutant of evaluateFinanceTransactionExecuteV1: the segregation check runs
\* before the account type checks.
evaluateFinanceComminglingFirst(p, c) ==
  LET missingFields == MissingFields(FinanceRequiredFields, c)
      allowedTransactionTypes == OrEmpty(Limit(p, "allowed_transaction_types"))
      allowedAssetClasses == OrEmpty(Limit(p, "allowed_asset_classes"))
      maxExposure == Limit(p, "max_exposure_per_tx_usd")
      restrictedAccountTypes == OrEmpty(Limit(p, "restricted_source_account_types"))
      allowedSourceAccountTypes == OrEmpty(Limit(p, "allowed_source_account_types"))
      maxCounterpartyExposure == Limit(p, "max_exposure_per_counterparty_usd")
  IN
  IF StatusDenied(p) THEN Deny("oap.passport_suspended")
  ELSE IF ~HasCapability(p, "finance.transaction") THEN Deny("oap.unknown_capability")
  ELSE IF AssuranceDeniedByEquality(p) THEN Deny("oap.assurance_insufficient")
  ELSE IF Len(missingFields) > 0 THEN DenyInvalidContext(missingFields)
  ELSE IF /\ allowedTransactionTypes # {}
          /\ ~Includes(allowedTransactionTypes, c.transaction_type)
       THEN Deny("oap.action_forbidden")
  ELSE IF /\ allowedAssetClasses # {}
          /\ ~Includes(allowedAssetClasses, c.asset_class)
       THEN Deny("oap.asset_class_forbidden")
  ELSE IF /\ TruthyNum(maxExposure)
          /\ \E a \in c.amount : \E m \in maxExposure : a > m
       THEN Deny("oap.limit_exceeded")
  ELSE IF ComminglingOfFunds(c) THEN Deny("oap.commingling_of_funds_forbidden")
  ELSE IF /\ TruthyStr(c.source_account_type)
          /\ Includes(restrictedAccountTypes, c.source_account_type)
       THEN Deny("oap.account_type_restricted")
  ELSE IF /\ allowedSourceAccountTypes # {}
          /\ TruthyStr(c.source_account_type)
          /\ ~Includes(allowedSourceAccountTypes, c.source_account_type)
       THEN Deny("oap.account_type_restricted")
  ELSE IF /\ TruthyNum(maxCounterpartyExposure)
          /\ TruthyStr(c.counterparty_id)
          /\ \E a \in c.amount : \E m \in maxCounterpartyExposure : a > m
       THEN Deny("oap.counterparty_limit_exceeded")
  ELSE AllowedFinance

evaluateFinanceTransactionExecuteV1(p, c) ==
  LET missingFields == MissingFields(FinanceRequiredFields, c)
      allowedTransactionTypes == OrEmpty(Limit(p, "allowed_transaction_types"))
      allowedAssetClasses == OrEmpty(Limit(p, "allowed_asset_classes"))
      maxExposure == Limit(p, "max_exposure_per_tx_usd")
      restrictedAccountTypes == OrEmpty(Limit(p, "restricted_source_account_types"))
      allowedSourceAccountTypes == OrEmpty(Limit(p, "allowed_source_account_types"))
      maxCounterpartyExposure == Limit(p, "max_exposure_per_counterparty_usd")
  IN
  IF StatusDenied(p) THEN Deny("oap.passport_suspended")
  ELSE IF ~HasCapability(p, "finance.transaction") THEN Deny("oap.unknown_capability")
  ELSE IF AssuranceDeniedByEquality(p) THEN Deny("oap.assurance_insufficient")
  ELSE IF Len(missingFields) > 0 THEN DenyInvalidContext(missingFields)
  ELSE IF /\ allowedTransactionTypes # {}
          /\ ~Includes(allowedTransactionTypes, c.transaction_type)
       THEN Deny("oap.action_forbidden")
  ELSE IF /\ allowedAssetClasses # {}
          /\ ~Includes(allowedAssetClasses, c.asset_class)
       THEN Deny("oap.asset_class_forbidden")
  ELSE IF /\ TruthyNum(maxExposure)
          /\ \E a \in c.amount : \E m \in maxExposure : a > m
       THEN Deny("oap.limit_exceeded")
  ELSE IF /\ TruthyStr(c.source_account_type)
          /\ Includes(restrictedAccountTypes, c.source_account_type)
       THEN Deny("oap.account_type_restricted")
  ELSE IF /\ allowedSourceAccountTypes # {}
          /\ TruthyStr(c.source_account_type)
          /\ ~Includes(allowedSourceAccountTypes, c.source_account_type)
       THEN Deny("oap.account_type_restricted")
  ELSE IF ComminglingOfFunds(c) THEN Deny("oap.commingling_of_funds_forbidden")
  ELSE IF /\ TruthyNum(maxCounterpartyExposure)
          /\ TruthyStr(c.counterparty_id)
          /\ \E a \in c.amount : \E m \in maxCounterpartyExposure : a > m
       THEN Deny("oap.counterparty_limit_exceeded")
  ELSE AllowedFinance

(***************************************************************************)
(* evaluateGovernanceDataAccessV1                                          *)
(***************************************************************************)
GovernanceRequiredFields ==
  <<"data_classification", "accessing_entity_id", "accessing_entity_type",
    "resource_id">>

AllowedGovernance ==
  [allow |-> TRUE, reasons |-> <<Reason("oap.allowed", "info", <<>>)>>]

\* passport.limits?.data?.access?.permissions?.[context.data_classification]
PermissionsFor(p, c) ==
  LET all == Limit(p, "permissions") IN
  IF all = {} THEN {}
  ELSE LET m == CHOOSE x \in all : TRUE IN
       {m[k] : k \in (DOMAIN m) \cap c.data_classification}

evaluateGovernanceDataAccessV1(p, c) ==
  LET missingFields == MissingFields(GovernanceRequiredFields, c)
      allowedClassifications == OrEmpty(Limit(p, "allowed_classifications"))
      permissions == PermissionsFor(p, c)
      allowedJurisdictions == OrEmpty(Limit(p, "allowed_jurisdictions"))
      maxRowsPerExport == Limit(p, "max_rows_per_export")
      allowedDestinationJurisdictions ==
        OrEmpty(Limit(p, "allowed_destination_jurisdictions"))
      balanceInquiryCap == Limit(p, "balance_inquiry_cap_usd")
  IN
  IF StatusDenied(p) THEN Deny("oap.passport_suspended")
  ELSE IF ~HasCapability(p, "data.access") THEN Deny("oap.unknown_capability")
  ELSE IF AssuranceDeniedByEquality(p) THEN Deny("oap.assurance_insufficient")
  ELSE IF Len(missingFields) > 0 THEN DenyInvalidContext(missingFields)
  ELSE IF /\ allowedClassifications # {}
          /\ ~Includes(allowedClassifications, c.data_classification)
       THEN Deny("oap.classification_forbidden")
  ELSE IF \E perm \in permissions :
            /\ perm.allowed_entity_types # {}
            /\ ~Includes(OrEmpty(perm.allowed_entity_types), c.accessing_entity_type)
       THEN Deny("oap.entity_type_forbidden")
  ELSE IF /\ TruthyStr(c.jurisdiction)
          /\ allowedJurisdictions # {}
          /\ ~Includes(allowedJurisdictions, c.jurisdiction)
       THEN Deny("oap.jurisdiction_blocked")
  ELSE IF /\ TruthyNum(c.row_count)
          /\ TruthyNum(maxRowsPerExport)
          /\ \E r \in c.row_count : \E m \in maxRowsPerExport : r > m
       THEN Deny("oap.row_limit_exceeded")
  ELSE IF /\ TruthyStr(c.destination_jurisdiction)
          /\ allowedDestinationJurisdictions # {}
          /\ ~Includes(allowedDestinationJurisdictions, c.destination_jurisdiction)
       THEN Deny("oap.jurisdiction_blocked")
  ELSE IF /\ TruthyNum(c.account_balance_usd)
          /\ TruthyNum(balanceInquiryCap)
          /\ \E b \in c.account_balance_usd : \E m \in balanceInquiryCap : b >= m
       THEN Deny("oap.balance_inquiry_forbidden")
  ELSE IF /\ TruthyStr(c.action_type)
          /\ \E perm \in permissions :
               /\ perm.allowed_actions # {}
               /\ ~Includes(OrEmpty(perm.allowed_actions), c.action_type)
       THEN Deny("oap.action_forbidden")
  ELSE AllowedGovernance

(***************************************************************************)
(* evaluateLegalContractReviewV1                                           *)
(***************************************************************************)
LegalRequiredFields ==
  <<"document_type", "client_id", "jurisdiction", "action_type",
    "idempotency_key">>

HighValueThreshold == 1000000

\* Mutant of AllowedLegal: only the first evaluation of a passport allows.
AllowedLegalFirstOnly == [allow |-> evaluations = 0, reasons |-> <<>>]

AllowedLegal == [allow |-> TRUE, reasons |-> <<>>]

\* Mutant of IsHighValue: no contract counts as high-value.
IsHighValueNever(contractValueUsd) == FALSE

\* contractValueUsd && contractValueUsd >= 1000000
IsHighValue(contractValueUsd) ==
  /\ TruthyNum(contractValueUsd)
  /\ \E v \in contractValueUsd : v >= HighValueThreshold

evaluateLegalContractReviewV1(p, c) ==
  LET missingFields == MissingFields(LegalRequiredFields, c)
      allowedDocumentTypes == OrEmpty(Limit(p, "allowed_document_types"))
      maxDocumentSizeMb == Limit(p, "max_document_size_mb")
      allowedJurisdictions == OrEmpty(Limit(p, "allowed_contract_jurisdictions"))
      contractValueUsd == c.contract_value_usd
      requireAttorneyReview == Limit(p, "require_attorney_review")
      privilegeProtectionEnabled == Limit(p, "privilege_protection_enabled")
      allowedClientTiers == OrEmpty(Limit(p, "allowed_client_tiers"))
      idempotencyRequired == Limit(p, "idempotency_required") = {TRUE}
  IN
  IF StatusDenied(p) THEN Deny("oap.passport_suspended")
  ELSE IF ~HasCapability(p, "legal.contract.review") THEN Deny("oap.unknown_capability")
  ELSE IF AssuranceDeniedByIndex(p) THEN Deny("oap.assurance_insufficient")
  ELSE IF Len(missingFields) > 0 THEN DenyInvalidContext(missingFields)
  ELSE IF /\ allowedDocumentTypes # {}
          /\ ~Includes(allowedDocumentTypes, c.document_type)
       THEN Deny("oap.document_type_forbidden")
  ELSE IF /\ TruthyNum(c.document_size_mb)
          /\ TruthyNum(maxDocumentSizeMb)
          /\ \E s \in c.document_size_mb : \E m \in maxDocumentSizeMb : s > m
       THEN Deny("oap.document_size_exceeded")
  ELSE IF /\ allowedJurisdictions # {}
          /\ ~Includes(allowedJurisdictions, c.jurisdiction)
       THEN Deny("oap.jurisdiction_blocked")
  ELSE IF IsHighValue(contractValueUsd) /\ ~TruthyStr(c.attorney_reviewer_id)
       THEN Deny("oap.high_value_review_required")
  ELSE IF requireAttorneyReview = {TRUE} /\ ~TruthyStr(c.attorney_reviewer_id)
       THEN Deny("oap.attorney_review_required")
  ELSE IF privilegeProtectionEnabled = {TRUE} /\ ~TruthyStr(c.privilege_level)
       THEN Deny("oap.privilege_protection_violation")
  ELSE IF /\ TruthyStr(c.client_tier)
          /\ allowedClientTiers # {}
          /\ ~Includes(allowedClientTiers, c.client_tier)
       THEN Deny("oap.client_tier_forbidden")
  ELSE IF idempotencyRequired /\ ~TruthyStr(c.idempotency_key)
       THEN Deny("oap.idempotency_conflict")
  ELSE AllowedLegal

(***************************************************************************)
(* Inputs of the evaluators.                                               *)
(***************************************************************************)
Policies == {"finance", "governance", "legal"}

CapabilityOf(pol) ==
  CASE pol = "finance" -> "finance.transaction"
    [] pol = "governance" -> "data.access"
    [] pol = "legal" -> "legal.contract.review"

RequiredFieldsOf(pol) ==
  CASE pol = "finance" -> FinanceRequiredFields
    [] pol = "governance" -> GovernanceRequiredFields
    [] pol = "legal" -> LegalRequiredFields

Range(seq) == {seq[i] : i \in 1..Len(seq)}

\* status: the three documented values, another value, and a missing status.
Statuses == {{"active"}, {"suspended"}, {"revoked"}, {"pending"}, {}}

\* capabilities: no array, an empty array, another capability, the policy's.
CapabilityInputs(pol) == {{}, {{}}, {{"payments.refund"}}, {{CapabilityOf(pol)}}}

AssuranceInputs == {{assuranceLevels[i]} : i \in 1..Len(assuranceLevels)} \cup {{}}

RequireAssuranceInputs == {{}, {"L1"}, {"L2"}, {"L4FIN"}}

\* Limits of a passport issued for the policy, as in the READMEs' examples.
TypicalLimits(pol) ==
  CASE pol = "finance" ->
         [require_assurance_at_least |-> {},
          allowed_transaction_types |-> {{"buy", "sell", "transfer"}},
          allowed_asset_classes |-> {{"equity", "bond"}},
          max_exposure_per_tx_usd |-> {MaxAmount - 1},
          restricted_source_account_types |-> {{"escrow"}},
          allowed_source_account_types |-> {{"client_funds", "proprietary"}},
          max_exposure_per_counterparty_usd |-> {MaxAmount - 1}]
    [] pol = "governance" ->
         [require_assurance_at_least |-> {},
          allowed_classifications |-> {{"public", "internal"}},
          permissions |->
            {[internal |-> [allowed_entity_types |-> {{"service", "analyst"}},
                            allowed_actions |-> {{"read", "export"}}]]},
          allowed_jurisdictions |-> {{"US", "CA"}},
          max_rows_per_export |-> {MaxAmount - 1},
          allowed_destination_jurisdictions |-> {{"US"}},
          balance_inquiry_cap_usd |-> {MaxAmount - 1}]
    [] pol = "legal" ->
         [require_assurance_at_least |-> {},
          allowed_document_types |-> {{"contract", "nda", "msa", "sla"}},
          max_document_size_mb |-> {MaxAmount - 1},
          allowed_contract_jurisdictions |-> {{"US", "CA", "GB"}},
          require_attorney_review |-> {TRUE},
          privilege_protection_enabled |-> {TRUE},
          max_contracts_per_day |-> {2},
          allowed_client_tiers |-> {{"tier1", "tier2", "enterprise"}},
          idempotency_required |-> {}]

Passport(status, caps, level, shape, limits) ==
  [status |-> status, capabilities |-> caps, assurance_level |-> level,
   limits |-> [shape |-> shape, v |-> limits]]

\* Every combination of status, capabilities, assurance level and
\* require_assurance_at_least, with the policy's typical limits.
Passports(pol) ==
  {Passport(s, caps, lvl, "nested",
            [TypicalLimits(pol) EXCEPT !.require_assurance_at_least = req]) :
     s \in Statuses, caps \in CapabilityInputs(pol),
     lvl \in AssuranceInputs, req \in RequireAssuranceInputs}

\* A context every check of the policy accepts under the typical limits.
ValidContext(pol) ==
  CASE pol = "finance" ->
         [transaction_type |-> {"buy"}, amount |-> {1}, currency |-> {"USD"},
          asset_class |-> {"equity"}, source_account_id |-> {"acc_client_123"},
          destination_account_id |-> {"acc_trading_456"},
          source_account_type |-> {}, destination_account_type |-> {},
          counterparty_id |-> {}]
    [] pol = "governance" ->
         [data_classification |-> {"internal"}, accessing_entity_id |-> {"svc_1"},
          accessing_entity_type |-> {"service"}, resource_id |-> {"res_1"},
          jurisdiction |-> {}, row_count |-> {}, destination_jurisdiction |-> {},
          account_balance_usd |-> {}, action_type |-> {}]
    [] pol = "legal" ->
         [document_type |-> {"contract"}, client_id |-> {"client_abc123"},
          jurisdiction |-> {"US"}, action_type |-> {"review"},
          idempotency_key |-> {"key-1"}, document_size_mb |-> {},
          contract_value_usd |-> {}, attorney_reviewer_id |-> {"attorney_xyz789"},
          privilege_level |-> {"privileged"}, client_tier |-> {}]

\* The context with the fields of S removed.
Without(c, S) == [f \in DOMAIN c |-> IF f \in S THEN {} ELSE c[f]]

\* The valid context with up to MaxMissing, or all, required fields omitted.
ContextsMissing(pol) ==
  {Without(ValidContext(pol), S) :
     S \in {T \in SUBSET Range(RequiredFieldsOf(pol)) :
              Cardinality(T) <= MaxMissing \/ T = Range(RequiredFieldsOf(pol))}}

Amounts == -1..MaxAmount

\* Contexts that pass the required-field check and exercise the policy's rules.
ContextsValues(pol) ==
  CASE pol = "finance" ->
         {[ValidContext(pol) EXCEPT !.amount = {a}, !.transaction_type = {t},
                                    !.source_account_type = src,
                                    !.destination_account_type = dst] :
            a \in Amounts, t \in {"buy", "short_sell"},
            src \in {{}, {"client_funds"}, {"escrow"}},
            dst \in {{}, {"proprietary"}}}
    [] pol = "governance" ->
         {[ValidContext(pol) EXCEPT !.data_classification = {cls},
                                    !.row_count = {r} \ {-1},
                                    !.account_balance_usd = {b} \ {-1}] :
            cls \in {"internal", "restricted"}, r \in Amounts, b \in Amounts}
    [] pol = "legal" ->
         {[ValidContext(pol) EXCEPT !.document_type = {d},
                                    !.document_size_mb = {sz} \ {-1},
                                    !.attorney_reviewer_id = att,
                                    !.idempotency_key = {k}] :
            d \in {"contract", "will"}, sz \in Amounts,
            att \in {{}, {"attorney_xyz789"}}, k \in {"key-1", "key-2"}}

Contexts(pol) == ContextsMissing(pol) \cup ContextsValues(pol)

NoAllows == [k \in {"key-1", "key-2"} |-> 0]

(***************************************************************************)
(* The HTTP side at rest: no request, nothing recorded.                    *)
(***************************************************************************)
Requests == 1..NumRequests

Keys == {"key-1", "key-2"}

PaymentPolicies ==
  {"finance.payment.refund.v1", "finance.payment.charge.v1",
   "finance.transaction.execute.v1"}

Currencies == {"USD", "EUR"}

UsageKinds == {"pr", "merge", "message"}

IdleRequest == [route |-> "none", pc |-> "idle", body |-> <<>>, status |-> 0]

NoRequests ==
  /\ reqs = [r \in Requests |-> IdleRequest]
  /\ idempotencyStore = {}
  /\ dailyTotal = [x \in {"payments.refund", "payments.charge"} \X Currencies |-> 0]
  /\ actionsStarted = [x \in PaymentPolicies \X Keys |-> 0]
  /\ usage = [k \in UsageKinds |-> 0]
  /\ performed = [k \in UsageKinds |-> 0]

(***************************************************************************)
(* One evaluation of each evaluator on an input of its family.             *)
(***************************************************************************)
Init ==
  /\ policy \in Policies
  /\ passport \in Passports(policy)
  /\ context \in Contexts(policy)
  /\ decision = {}
  /\ evaluations = 0
  /\ allowCount = NoAllows
  /\ NoRequests

\* Mutant of EvaluateFinance: the evaluation stores the limits it resolved
\* back into the passport.
EvaluateFinanceNormalising ==
  /\ policy = "finance"
  /\ decision = {}
  /\ decision' = {evaluateFinanceTransactionExecuteV1(passport, context)}
  /\ passport' = [passport EXCEPT !.limits.shape = "nested"]
  /\ evaluations' = evaluations + 1
  /\ UNCHANGED <<policy, context, allowCount, payVars, usageVars>>

\* The caller awaits evaluateFinanceTransactionExecuteV1(passport, context).
EvaluateFinance ==
  /\ policy = "finance"
  /\ decision = {}
  /\ decision' = {evaluateFinanceTransactionExecuteV1(passport, context)}
  /\ evaluations' = evaluations + 1
  /\ UNCHANGED <<policy, passport, context, allowCount, payVars, usageVars>>

\* The caller awaits evaluateGovernanceDataAccessV1(passport, context).
EvaluateGovernance ==
  /\ policy = "governance"
  /\ decision = {}
  /\ decision' = {evaluateGovernanceDataAccessV1(passport, context)}
  /\ evaluations' = evaluations + 1
  /\ UNCHANGED <<policy, passport, context, allowCount, payVars, usageVars>>

\* The caller awaits evaluateLegalContractReviewV1(passport, context); the
\* allow decisions are counted per idempotency key.
EvaluateLegal ==
  /\ policy = "legal"
  /\ decision = {}
  /\ LET d == evaluateLegalContractReviewV1(passport, context) IN
       /\ decision' = {d}
       /\ allowCount' =
            IF d.allow
            THEN [k \in DOMAIN allowCount |->
                    IF context.idempotency_key = {k} THEN allowCount[k] + 1
                    ELSE allowCount[k]]
            ELSE allowCount
  /\ evaluations' = evaluations + 1
  /\ UNCHANGED <<policy, passport, context, payVars, usageVars>>

Next == EvaluateFinance \/ EvaluateGovernance \/ EvaluateLegal

Spec == Init /\ [][Next]_vars

(***************************************************************************)
(* Evaluations of passports that differ in their limits (specification     *)
(* SpecLimits): the limits of the policy complete, with one limit left     *)
(* out, with a wildcard allowlist, stored nested, flat or not at all.      *)
(***************************************************************************)
\* The limits the policy's documentation lists as required.
RequiredLimitsOf(pol) ==
  DOMAIN TypicalLimits(pol) \ {"require_assurance_at_least", "idempotency_required"}

\* The allowlists of the policy that the wildcard inputs replace by ["*"].
WildcardFieldsOf(pol) ==
  CASE pol = "finance" -> {"allowed_transaction_types", "allowed_asset_classes"}
    [] pol = "governance" -> {"allowed_classifications"}
    [] pol = "legal" -> {"allowed_document_types"}

LimitsInputs(pol) ==
  {TypicalLimits(pol)}
    \cup {[TypicalLimits(pol) EXCEPT ![f] = {}] : f \in RequiredLimitsOf(pol)}
    \cup {[TypicalLimits(pol) EXCEPT ![f] = {{"*"}}] : f \in WildcardFieldsOf(pol)}
    \cup {[TypicalLimits(pol) EXCEPT !.idempotency_required = {TRUE}] :
            x \in {pol} \cap {"legal"}}

LimitShapes == {"nested", "flat", "none"}

\* Active L3 passports with or without the capabilities array.
LimitsPassports(pol) ==
  {Passport({"active"}, caps, {"L3"}, shape, limits) :
     caps \in {{}, {{CapabilityOf(pol)}}}, shape \in LimitShapes,
     limits \in LimitsInputs(pol)}

\* Values at, just below and just above the high-value threshold.
ContractValues ==
  {{}, {HighValueThreshold - 1}, {HighValueThreshold}, {HighValueThreshold + 1}}

\* Contexts with every required field, around the limits of the policy.
LimitsContexts(pol) ==
  CASE pol = "finance" ->
         {[ValidContext(pol) EXCEPT !.amount = {a}, !.transaction_type = {t},
                                    !.asset_class = {ac},
                                    !.source_account_type = src,
                                    !.counterparty_id = cp] :
            a \in Amounts, t \in {"buy", "short_sell"}, ac \in {"equity", "crypto"},
            src \in {{}, {"client_funds"}, {"trust"}},
            cp \in {{}, {"cp_1"}}}
    [] pol = "governance" ->
         {[ValidContext(pol) EXCEPT !.data_classification = {cls},
                                    !.accessing_entity_type = {et},
                                    !.jurisdiction = j,
                                    !.row_count = {r} \ {-1},
                                    !.account_balance_usd = {b} \ {-1},
                                    !.action_type = act] :
            cls \in {"internal", "restricted"}, et \in {"service", "vendor"},
            j \in {{}, {"FR"}}, r \in Amounts, b \in Amounts,
            act \in {{}, {"delete"}}}
    [] pol = "legal" ->
         {[ValidContext(pol) EXCEPT !.document_type = {d},
                                    !.document_size_mb = {sz} \ {-1},
                                    !.jurisdiction = {j},
                                    !.contract_value_usd = v,
                                    !.attorney_reviewer_id = att,
                                    !.client_tier = tier] :
            d \in {"contract", "will"}, sz \in Amounts, j \in {"US", "FR"},
            v \in ContractValues, att \in {{}, {"attorney_xyz789"}},
            tier \in {{}, {"basic"}}}

InitLimits ==
  /\ policy \in Policies
  /\ passport \in LimitsPassports(policy)
  /\ context \in LimitsContexts(policy) \cup ContextsMissing(policy)
  /\ decision = {}
  /\ evaluations = 0
  /\ allowCount = NoAllows
  /\ NoRequests

NextLimits == EvaluateFinance \/ EvaluateGovernance \/ EvaluateLegal

SpecLimits == InitLimits /\ [][NextLimits]_vars

(***************************************************************************)
(* evaluateFinanceTransactionExecuteV1 on account types (specification     *)
(* SpecFinance): limits that restrict or do not list client_funds, and     *)
(* contexts with a source and a destination account type.                  *)
(***************************************************************************)
FinanceLimitsInputs ==
  LimitsInputs("finance")
    \cup {[TypicalLimits("finance") EXCEPT
              !.restricted_source_account_types = {{"client_funds", "escrow"}}],
          [TypicalLimits("finance") EXCEPT
              !.allowed_source_account_types = {{"proprietary"}}],
          [TypicalLimits("finance") EXCEPT
              !.restricted_source_account_types = {{"client_funds", "escrow"}},
              !.allowed_source_account_types = {{"proprietary"}}]}

FinancePassports ==
  {Passport(s, {{"finance.transaction"}}, {"L3"}, shape, limits) :
     s \in {{"active"}, {"suspended"}}, shape \in LimitShapes,
     limits \in FinanceLimitsInputs}

FinanceContexts ==
  {[ValidContext("finance") EXCEPT !.amount = {a}, !.transaction_type = {t},
                                   !.asset_class = {ac},
                                   !.source_account_type = src,
                                   !.destination_account_type = dst,
                                   !.counterparty_id = cp] :
     a \in 1..MaxAmount, t \in {"buy", "short_sell"}, ac \in {"equity", "crypto"},
     src \in {{}, {"client_funds"}, {"escrow"}, {"trust"}},
     dst \in {{}, {"proprietary"}, {"client_funds"}},
     cp \in {{}, {"cp_1"}}}

InitFinance ==
  /\ policy = "finance"
  /\ passport \in FinancePassports
  /\ context \in FinanceContexts
  /\ decision = {}
  /\ evaluations = 0
  /\ allowCount = NoAllows
  /\ NoRequests

NextFinance == EvaluateFinance

SpecFinance == InitFinance /\ [][NextFinance]_vars

(***************************************************************************)
(* A day of legal.contract.review.v1 evaluations for one agent: the same   *)
(* passport is evaluated on up to MaxEvaluations contexts, one after the   *)
(* other (specification SpecLegalDay).                                     *)
(***************************************************************************)
LegalDayPassports ==
  {Passport({"active"}, {{"legal.contract.review"}}, lvl, "nested",
            [TypicalLimits("legal") EXCEPT !.max_contracts_per_day = {m},
                                           !.idempotency_required = idem]) :
     lvl \in {{"L3"}, {"L4KYC"}}, m \in 1..2, idem \in {{}, {TRUE}}}

InitLegalDay ==
  /\ policy = "legal"
  /\ passport \in LegalDayPassports
  /\ context \in ContextsValues("legal")
  /\ decision = {}
  /\ evaluations = 0
  /\ allowCount = NoAllows
  /\ NoRequests

\* The caller's next request of the day: a new context for the same passport.
NextRequest ==
  /\ decision # {}
  /\ evaluations < MaxEvaluations
  /\ context' \in ContextsValues(policy)
  /\ decision' = {}
  /\ UNCHANGED <<policy, passport, evaluations, allowCount, payVars, usageVars>>

NextLegalDay == EvaluateLegal \/ NextRequest

SpecLegalDay == InitLegalDay /\ [][NextLegalDay]_vars

(***************************************************************************)
(* A passport is evaluated by the evaluator of its policy on up to         *)
(* MaxEvaluations contexts, one after the other (specification SpecRepeat).*)
(***************************************************************************)
InitRepeat ==
  /\ policy \in Policies
  /\ passport \in LimitsPassports(policy)
  /\ context \in ContextsValues(policy)
  /\ decision = {}
  /\ evaluations = 0
  /\ allowCount = NoAllows
  /\ NoRequests

NextRepeat == EvaluateFinance \/ EvaluateGovernance \/ EvaluateLegal \/ NextRequest

SpecRepeat == InitRepeat /\ [][NextRepeat]_vars

(***************************************************************************)
(* The payment routes (specification SpecPayments): POST /refunds,         *)
(* /refunds/batch, /payments/charge, /payments/charge/batch and            *)
(* /finance/transaction, served concurrently for one agent.  A request is  *)
(* first handed to the requirePolicy middleware, then to the route's       *)
(* handler, which runs up to its await of the payment processor and        *)
(* resumes when the processor answers.                                     *)
(***************************************************************************)
SingleRoutes == {"refund", "charge", "transaction"}

BatchRoutes == {"refundBatch", "chargeBatch"}

PolicyOfRoute(route) ==
  CASE route \in {"refund", "refundBatch"} -> "finance.payment.refund.v1"
    [] route \in {"charge", "chargeBatch"} -> "finance.payment.charge.v1"
    [] route = "transaction" -> "finance.transaction.execute.v1"

CapabilityOfRoute(route) ==
  CASE route \in {"refund", "refundBatch"} -> "payments.refund"
    [] route \in {"charge", "chargeBatch"} -> "payments.charge"
    [] route = "transaction" -> "finance.transaction"

\* The passport of the agent: a daily cap for USD, none for EUR, stored both
\* at limits.currency_limits and at limits.payments.charge.currency_limits.
PaymentsPassport ==
  LET caps == [USD |-> [daily_cap |-> {MaxAmount}], EUR |-> [daily_cap |-> {}]] IN
  [passport_id |-> "ap_1", status |-> {"active"},
   limits |-> [currency_limits |-> caps,
               payments |-> [charge |-> [currency_limits |-> caps]]]]

\* passport.limits?.currency_limits?.[currency]?.daily_cap
RefundDailyCap(p, cur) ==
  IF cur \in DOMAIN p.limits.currency_limits
  THEN p.limits.currency_limits[cur].daily_cap ELSE {}

\* passport.limits?.payments?.charge?.currency_limits?.[currency]?.daily_cap
ChargeDailyCap(p, cur) ==
  IF cur \in DOMAIN p.limits.payments.charge.currency_limits
  THEN p.limits.payments.charge.currency_limits[cur].daily_cap ELSE {}

DailyCapOf(route, p, cur) ==
  IF route \in {"refund", "refundBatch"} THEN RefundDailyCap(p, cur)
  ELSE IF route \in {"charge", "chargeBatch"} THEN ChargeDailyCap(p, cur)
  ELSE {}

\* Request bodies.
SingleBodies(route) ==
  {[amount |-> {a}, currency |-> {cur}, idempotency_key |-> {k},
    items |-> items, source_account_id |-> src, destination_account_id |-> {"acc_2"}] :
     a \in 0..(MaxAmount - 1), cur \in {"USD"}, k \in Keys,
     items \in (IF route = "charge" THEN {{}, {1}} ELSE {{}}),
     src \in (IF route = "transaction" THEN {{}, {"acc_1"}} ELSE {{}})}

BatchItems == {[amount |-> {a}, currency |-> cur] : a \in 1..(MaxAmount - 1), cur \in {{}, {"EUR"}}}

BatchBodies ==
  UNION {[1..n -> BatchItems] : n \in 1..MaxBatch}

Bodies(route) == IF route \in SingleRoutes THEN SingleBodies(route) ELSE BatchBodies

\* currencyTotals[currency] of a batch: the sum of (item.amount || 0) over the
\* items whose (item.currency || "USD") is the currency.
RECURSIVE CurrencyTotal(_, _)
CurrencyTotal(items, cur) ==
  IF items = <<>> THEN 0
  ELSE LET item == Head(items)
           itemCurrency == IF TruthyStr(item.currency)
                           THEN CHOOSE c \in item.currency : TRUE ELSE "USD"
           itemAmount == IF TruthyNum(item.amount)
                         THEN CHOOSE a \in item.amount : TRUE ELSE 0
       IN (IF itemCurrency = cur THEN itemAmount ELSE 0) + CurrencyTotal(Tail(items), cur)

Respond(r, code) == reqs' = [reqs EXCEPT ![r].pc = "done", ![r].status = code]

\* A client of the agent sends a request.
Arrive(r) ==
  /\ reqs[r].pc = "idle"
  /\ \E route \in SingleRoutes \cup BatchRoutes : \E body \in Bodies(route) :
       reqs' = [reqs EXCEPT ![r] = [route |-> route, pc |-> "policy",
                                    body |-> body, status |-> 0]]
  /\ UNCHANGED <<evalVars, usageVars, idempotencyStore, dailyTotal, actionsStarted>>

\* The idempotency rule of the decision: a record of the key exists.
IdempotencyReplay(q) ==
  /\ q.route \in SingleRoutes
  /\ \E k \in q.body.idempotency_key : <<PolicyOfRoute(q.route), k>> \in idempotencyStore

\* The daily-cap rule of the decision: current total + amount > daily_cap.
DailyCapExceeded(q) ==
  /\ q.route \in {"refund", "charge"}
  /\ \E a \in q.body.amount : \E cur \in q.body.currency :
       \E cap \in DailyCapOf(q.route, passport, cur) :
         dailyTotal[<<CapabilityOfRoute(q.route), cur>>] + a > cap

\* requirePolicy(policy_id): the decision for the request's context; a deny
\* answers 403, an allow hands the request to the handler.
RequirePolicy(r) ==
  /\ reqs[r].pc = "policy"
  /\ IF IdempotencyReplay(reqs[r]) \/ DailyCapExceeded(reqs[r])
     THEN Respond(r, 403)
     ELSE reqs' = [reqs EXCEPT ![r].pc = "handler"]
  /\ UNCHANGED <<evalVars, usageVars, idempotencyStore, dailyTotal, actionsStarted>>

\* The handler calls the payment processor for the request.
StartAction(r) ==
  /\ reqs' = [reqs EXCEPT ![r].pc = "processing"]
  /\ actionsStarted' =
       [x \in DOMAIN actionsStarted |->
          IF x[1] = PolicyOfRoute(reqs[r].route) /\ reqs[r].body.idempotency_key = {x[2]}
          THEN actionsStarted[x] + 1 ELSE actionsStarted[x]]

\* POST /refunds, up to the await of processRefund.
RefundStart(r) ==
  /\ reqs[r].pc = "handler"
  /\ reqs[r].route = "refund"
  /\ IF \E a \in reqs[r].body.amount : a <= 0
     THEN Respond(r, 400) /\ UNCHANGED actionsStarted
     ELSE StartAction(r)
  /\ UNCHANGED <<evalVars, usageVars, idempotencyStore, dailyTotal>>

\* POST /payments/charge, up to the await of processCharge.
ChargeStart(r) ==
  /\ reqs[r].pc = "handler"
  /\ reqs[r].route = "charge"
  /\ IF \E a \in reqs[r].body.amount : a <= 0
     THEN Respond(r, 400) /\ UNCHANGED actionsStarted
     ELSE IF reqs[r].body.items = {} \/ reqs[r].body.items = {0}
     THEN Respond(r, 400) /\ UNCHANGED actionsStarted
     ELSE StartAction(r)
  /\ UNCHANGED <<evalVars, usageVars, idempotencyStore, dailyTotal>>

\* POST /finance/transaction, up to the await of processTransaction.
TransactionStart(r) ==
  /\ reqs[r].pc = "handler"
  /\ reqs[r].route = "transaction"
  /\ IF \E a \in reqs[r].body.amount : a <= 0
     THEN Respond(r, 400) /\ UNCHANGED actionsStarted
     ELSE IF \/ ~TruthyStr(reqs[r].body.source_account_id)
             \/ ~TruthyStr(reqs[r].body.destination_account_id)
     THEN Respond(r, 400) /\ UNCHANGED actionsStarted
     ELSE StartAction(r)
  /\ UNCHANGED <<evalVars, usageVars, idempotencyStore, dailyTotal>>

\* The batch handlers' daily-cap check: some currency's batch total is above
\* its daily_cap.
BatchOverCap(route, items) ==
  \E cur \in Currencies :
    /\ CurrencyTotal(items, cur) > 0
    /\ \E cap \in DailyCapOf(route, passport, cur) :
         cap # 0 /\ CurrencyTotal(items, cur) > cap

\* POST /refunds/batch, up to the await of Promise.all(processRefund...).
RefundBatchStart(r) ==
  /\ reqs[r].pc = "handler"
  /\ reqs[r].route = "refundBatch"
  /\ IF BatchOverCap("refundBatch", reqs[r].body)
     THEN Respond(r, 403)
     ELSE reqs' = [reqs EXCEPT ![r].pc = "processing"]
  /\ UNCHANGED <<evalVars, usageVars, idempotencyStore, dailyTotal, actionsStarted>>

\* POST /payments/charge/batch, up to the await of Promise.all(processCharge...).
ChargeBatchStart(r) ==
  /\ reqs[r].pc = "handler"
  /\ reqs[r].route = "chargeBatch"
  /\ IF BatchOverCap("chargeBatch", reqs[r].body)
     THEN Respond(r, 403)
     ELSE reqs' = [reqs EXCEPT ![r].pc = "processing"]
  /\ UNCHANGED <<evalVars, usageVars, idempotencyStore, dailyTotal, actionsStarted>>

\* The amounts a request moves once its processor calls have succeeded.
Moved(q, cur) ==
  IF q.route \in BatchRoutes THEN CurrencyTotal(q.body, cur)
  ELSE IF q.body.currency = {cur} THEN CHOOSE a \in q.body.amount : TRUE
  ELSE 0

\* The payment processor answers: the amounts are counted as processed, the
\* decision is recorded under its idempotency key, the handler answers 200.
ProcessorReturns(r) ==
  /\ reqs[r].pc = "processing"
  /\ Respond(r, 200)
  /\ dailyTotal' =
       [x \in DOMAIN dailyTotal |->
          IF x[1] = CapabilityOfRoute(reqs[r].route)
          THEN dailyTotal[x] + Moved(reqs[r], x[2]) ELSE dailyTotal[x]]
  /\ idempotencyStore' =
       IF reqs[r].route \in SingleRoutes
       THEN idempotencyStore \cup
              {<<PolicyOfRoute(reqs[r].route), k>> : k \in reqs[r].body.idempotency_key}
       ELSE idempotencyStore
  /\ UNCHANGED <<evalVars, usageVars, actionsStarted>>

\* The payment processor throws: the handler's catch answers 500.
\* Nothing is counted as processed, also for a batch whose Promise.all
\* rejects after some of its calls went through.
ProcessorThrows(r) ==
  /\ reqs[r].pc = "processing"
  /\ Respond(r, 500)
  /\ UNCHANGED <<evalVars, usageVars, idempotencyStore, dailyTotal, actionsStarted>>

InitPayments ==
  /\ policy = "payments"
  /\ passport = PaymentsPassport
  /\ context = {}
  /\ decision = {}
  /\ evaluations = 0
  /\ allowCount = NoAllows
  /\ NoRequests

NextPayments ==
  \E r \in Requests :
    \/ Arrive(r)
    \/ RequirePolicy(r)
    \/ RefundStart(r)
    \/ ChargeStart(r)
    \/ TransactionStart(r)
    \/ RefundBatchStart(r)
    \/ ChargeBatchStart(r)
    \/ ProcessorReturns(r)
    \/ ProcessorThrows(r)

SpecPayments == InitPayments /\ [][NextPayments]_vars

(***************************************************************************)
(* The handlers of POST /repo/pr, POST /repo/merge and POST /messages,     *)
(* served concurrently for one agent.  Each handler runs from one await to *)
(* the next in one step: its checks, the read of the daily usage and the   *)
(* comparison, the guarded action, the recording of the usage.             *)
(***************************************************************************)
UsageRoutes == {"pr", "merge", "message"}

\* The passport of the agent, with the parameters of its capabilities by
\* capability id.
RepoPassport ==
  [agent_id |-> "ap_1", status |-> {"active"},
   capabilities |->
     [pr |-> [allowed_repos |-> {{"org/app"}},
              allowed_base_branches |-> {{"main"}},
              max_files_changed |-> {2},
              max_total_added_lines |-> {3},
              path_allowlist |-> {{"^src/"}}],
      merge |-> [allowed_repos |-> {{"org/app"}},
                 allowed_base_branches |-> {{"main"}},
                 required_labels |-> {{"approved"}},
                 required_reviews |-> {1}],
      message |-> [channels_allowlist |-> {{"general"}},
                   mention_policy |-> {}]],
   limits |-> [max_prs_per_day |-> {1}, max_merges_per_day |-> {1},
               max_pr_size_kb |-> {2}, msgs_per_min |-> {1}, msgs_per_day |-> {2}]]

\* passport.capabilities.find((cap) => cap.id === id)?.params
Params(p, kind) == p.capabilities[kind]

\* allowed.length > 0 && !allowed.includes(value), for allowed = list || []
NotInAllowlist(list, value) ==
  LET allowed == OrEmpty(list) IN allowed # {} /\ ~Includes(allowed, value)

\* file.path.match(new RegExp(pattern))
PathMatches(path, pattern) ==
  <<path, pattern>> \in {<<"src/a.js", "^src/">>, <<"src/b.js", "^src/">>}

\* files_changed?.reduce((sum, file) => sum + (file.lines_added || 0), 0) || 0
RECURSIVE SumLinesAdded(_)
SumLinesAdded(files) ==
  IF files = <<>> THEN 0
  ELSE (IF TruthyNum(Head(files).lines_added)
        THEN CHOOSE n \in Head(files).lines_added : TRUE ELSE 0)
       + SumLinesAdded(Tail(files))

TotalLinesAdded(files_changed) ==
  IF files_changed = {} THEN 0
  ELSE SumLinesAdded(CHOOSE files \in files_changed : TRUE)

\* Request bodies and the answers of the Git service.
FileA == [path |-> "src/a.js", lines_added |-> {1}]

FileB == [path |-> "src/b.js", lines_added |-> {MaxAmount}]

FileSecret == [path |-> "secrets/key", lines_added |-> {}]

FilesChangedInputs ==
  {{}, {<<FileA>>}, {<<FileA, FileB>>}, {<<FileSecret>>}, {<<FileA, FileA, FileA>>}}

PrBodies ==
  {[repo |-> {rp}, base_branch |-> {b}, files_changed |-> f] :
     rp \in {"org/app", "org/other"}, b \in {"main", "dev"},
     f \in FilesChangedInputs}

MergeBodies == {[repo |-> {rp}, pr_id |-> {"pr_1"}] : rp \in {"org/app", "org/other"}}

PRDetailsInputs ==
  {[base_branch |-> {b}, labels |-> l, approvals |-> a, size_kb |-> s] :
     b \in {"main", "dev"}, l \in {{}, {"approved"}},
     a \in {0, 2}, s \in {1, MaxAmount}}

MessageBodies ==
  {[channel |-> {ch}, mentions |-> m, recipients |-> rc] :
     ch \in {"general", "random"},
     m \in {{}, {{}}, {{"@user"}}, {{"@everyone"}}},
     rc \in {{}, {{"user_1"}}}}

UsageBodies(route) ==
  CASE route = "pr" -> PrBodies
    [] route = "merge" -> MergeBodies
    [] route = "message" -> MessageBodies

\* prDetails and dailyUsage are the locals of the POST /repo/merge handler.
IdleUsageRequest ==
  [route |-> "none", pc |-> "idle", body |-> <<>>, status |-> 0,
   acted |-> FALSE, recorded |-> FALSE, prDetails |-> {}, dailyUsage |-> {}]

\* A client of the agent sends a request.
ArriveUsage(r) ==
  /\ reqs[r].pc = "idle"
  /\ \E route \in UsageRoutes : \E body \in UsageBodies(route) :
       reqs' = [reqs EXCEPT ![r].route = route, ![r].pc = "policy", ![r].body = body]
  /\ UNCHANGED <<evalVars, usageVars, idempotencyStore, dailyTotal, actionsStarted>>

\* requirePolicy("repo.v1") / requirePolicy("messaging.message.send.v1"): the
\* decision of the verification service; a deny answers 403, an allow hands
\* the request to the handler.
RequireRoutePolicy(r) ==
  /\ reqs[r].pc = "policy"
  /\ \E allow \in BOOLEAN :
       IF allow THEN reqs' = [reqs EXCEPT ![r].pc = "handler"]
       ELSE Respond(r, 403)
  /\ UNCHANGED <<evalVars, usageVars, idempotencyStore, dailyTotal, actionsStarted>>

\* getDailyPRUsage / getDailyMergeUsage: the usage recorded today.
DailyUsage(kind) == usage[kind]

\* recordPRUsage / recordMergeUsage / recordMessageUsage(agent_id, count = 1)
RecordUsage(kind) ==
  /\ usage' = [usage EXCEPT ![kind] = usage[kind] + 1]
  /\ UNCHANGED performed

\* The checks of POST /repo/pr on the body, in their order.
PrRejected(p, body) ==
  LET params == Params(p, "pr")
      files_changed == body.files_changed
      totalLinesAdded == TotalLinesAdded(files_changed)
      pathAllowlist == OrEmpty(params.path_allowlist)
  IN \/ NotInAllowlist(params.allowed_repos, body.repo)
     \/ NotInAllowlist(params.allowed_base_branches, body.base_branch)
     \/ \E files \in files_changed : \E maxFiles \in params.max_files_changed :
          maxFiles # 0 /\ Len(files) > maxFiles
     \/ \E maxLines \in params.max_total_added_lines :
          maxLines # 0 /\ totalLinesAdded > maxLines
     \/ /\ pathAllowlist # {}
        /\ \E files \in files_changed : \E i \in 1..Len(files) :
             \A pattern \in pathAllowlist : ~PathMatches(files[i].path, pattern)

\* POST /repo/pr, up to the await of getDailyPRUsage.
PrChecks(r) ==
  /\ reqs[r].pc = "handler"
  /\ reqs[r].route = "pr"
  /\ IF PrRejected(passport, reqs[r].body)
     THEN Respond(r, 403)
     ELSE reqs' = [reqs EXCEPT ![r].pc = "usage"]
  /\ UNCHANGED <<evalVars, usageVars, idempotencyStore, dailyTotal, actionsStarted>>

\* POST /repo/pr, from the answer of getDailyPRUsage up to the await of
\* createPullRequest.
PrDailyLimit(r) ==
  /\ reqs[r].pc = "usage"
  /\ reqs[r].route = "pr"
  /\ LET dailyUsage == DailyUsage("pr") IN
       IF \E limit \in passport.limits.max_prs_per_day : dailyUsage >= limit
       THEN Respond(r, 403)
       ELSE reqs' = [reqs EXCEPT ![r].pc = "acting"]
  /\ UNCHANGED <<evalVars, usageVars, idempotencyStore, dailyTotal, actionsStarted>>

\* The guarded action of a request has completed; the handler awaits the
\* recording of the usage.
Acted(r, kind) ==
  /\ reqs[r].pc = "acting"
  /\ reqs[r].route = kind
  /\ reqs' = [reqs EXCEPT ![r].pc = "recording", ![r].acted = TRUE]
  /\ performed' = [performed EXCEPT ![kind] = performed[kind] + 1]
  /\ UNCHANGED <<evalVars, usage, idempotencyStore, dailyTotal, actionsStarted>>

\* An awaited call of the handler rejects: the catch answers 500.
Caught(r, kind, awaits) ==
  /\ reqs[r].pc \in awaits
  /\ reqs[r].route = kind
  /\ Respond(r, 500)
  /\ UNCHANGED <<evalVars, usageVars, idempotencyStore, dailyTotal, actionsStarted>>

\* createPullRequest has returned the pr_id.
PrCreated(r) == Acted(r, "pr")

\* recordPRUsage has returned: the handler answers 200.
PrRecorded(r) ==
  /\ reqs[r].pc = "recording"
  /\ reqs[r].route = "pr"
  /\ RecordUsage("pr")
  /\ reqs' = [reqs EXCEPT ![r].pc = "done", ![r].status = 200, ![r].recorded = TRUE]
  /\ UNCHANGED <<evalVars, idempotencyStore, dailyTotal, actionsStarted>>

PrThrows(r) == Caught(r, "pr", {"usage", "acting", "recording"})

\* Mutant of MergeRejected: the labels of the pull request are not checked.
MergeRejectedWithoutLabels(p, body, prDetails) ==
  LET params == Params(p, "merge")
  IN \/ NotInAllowlist(params.allowed_repos, body.repo)
     \/ NotInAllowlist(params.allowed_base_branches, prDetails.base_branch)
     \/ \E requiredReviews \in params.required_reviews :
          prDetails.approvals < requiredReviews
     \/ \E limit \in p.limits.max_pr_size_kb : prDetails.size_kb > limit

\* The checks of POST /repo/merge on the details of the pull request, in
\* their order.
MergeRejected(p, body, prDetails) ==
  LET params == Params(p, "merge")
      requiredLabels == OrEmpty(params.required_labels)
  IN \/ NotInAllowlist(params.allowed_repos, body.repo)
     \/ NotInAllowlist(params.allowed_base_branches, prDetails.base_branch)
     \/ \E label \in requiredLabels : label \notin prDetails.labels
     \/ \E requiredReviews \in params.required_reviews :
          prDetails.approvals < requiredReviews
     \/ \E limit \in p.limits.max_pr_size_kb : prDetails.size_kb > limit

\* POST /repo/merge, from the answer of getPRDetails up to the await of
\* getDailyMergeUsage.
MergeChecks(r) ==
  /\ reqs[r].pc = "handler"
  /\ reqs[r].route = "merge"
  /\ \E prDetails \in PRDetailsInputs :
       IF MergeRejected(passport, reqs[r].body, prDetails)
       THEN reqs' = [reqs EXCEPT ![r].pc = "done", ![r].status = 403,
                                 ![r].prDetails = {prDetails}]
       ELSE reqs' = [reqs EXCEPT ![r].pc = "usage", ![r].prDetails = {prDetails}]
  /\ UNCHANGED <<evalVars, usageVars, idempotencyStore, dailyTotal, actionsStarted>>

\* POST /repo/merge, from the answer of getDailyMergeUsage up to the await of
\* mergePullRequest.
MergeDailyLimit(r) ==
  /\ reqs[r].pc = "usage"
  /\ reqs[r].route = "merge"
  /\ LET dailyUsage == DailyUsage("merge") IN
       IF \E limit \in passport.limits.max_merges_per_day : dailyUsage >= limit
       THEN reqs' = [reqs EXCEPT ![r].pc = "done", ![r].status = 403,
                                 ![r].dailyUsage = {dailyUsage}]
       ELSE reqs' = [reqs EXCEPT ![r].pc = "acting", ![r].dailyUsage = {dailyUsage}]
  /\ UNCHANGED <<evalVars, usageVars, idempotencyStore, dailyTotal, actionsStarted>>

\* mergePullRequest has returned the merge result.
Merged(r) == Acted(r, "merge")

\* recordMergeUsage has returned: the handler answers 200.
MergeRecorded(r) ==
  /\ reqs[r].pc = "recording"
  /\ reqs[r].route = "merge"
  /\ RecordUsage("merge")
  /\ reqs' = [reqs EXCEPT ![r].pc = "done", ![r].status = 200, ![r].recorded = TRUE]
  /\ UNCHANGED <<evalVars, idempotencyStore, dailyTotal, actionsStarted>>

MergeThrows(r) == Caught(r, "merge", {"handler", "usage", "acting", "recording"})

\* The checks of POST /messages on the body, in their order.
MessageRejected(p, body) ==
  LET params == Params(p, "message")
      mentionPolicy == IF TruthyStr(params.mention_policy)
                       THEN params.mention_policy ELSE {"limited"}
  IN \/ NotInAllowlist(params.channels_allowlist, body.channel)
     \/ \E mentions \in body.mentions :
          /\ mentions # {}
          /\ \/ mentionPolicy = {"none"}
             \/ mentionPolicy = {"limited"} /\ "@everyone" \in mentions

\* POST /messages, up to the await of checkMessageRateLimit.
MessageChecks(r) ==
  /\ reqs[r].pc = "handler"
  /\ reqs[r].route = "message"
  /\ IF MessageRejected(passport, reqs[r].body)
     THEN Respond(r, 403)
     ELSE reqs' = [reqs EXCEPT ![r].pc = "usage"]
  /\ UNCHANGED <<evalVars, usageVars, idempotencyStore, dailyTotal, actionsStarted>>

\* checkMessageRateLimit: the answer of the rate limiter for the agent.
CheckMessageRateLimit ==
  [allowed |-> \A limit \in passport.limits.msgs_per_min : DailyUsage("message") < limit]

\* POST /messages, from the answer of checkMessageRateLimit up to the await
\* of sendMessage.
MessageRateLimit(r) ==
  /\ reqs[r].pc = "usage"
  /\ reqs[r].route = "message"
  /\ LET rateLimitCheck == CheckMessageRateLimit IN
       IF ~rateLimitCheck.allowed
       THEN Respond(r, 429)
       ELSE reqs' = [reqs EXCEPT ![r].pc = "acting"]
  /\ UNCHANGED <<evalVars, usageVars, idempotencyStore, dailyTotal, actionsStarted>>

\* sendMessage has returned the message_id.
MessageSent(r) == Acted(r, "message")

\* recordMessageUsage has returned: the handler builds its answer, reading
\* recipients.length, which throws into the catch when the body has no
\* recipients.
MessageRecorded(r) ==
  /\ reqs[r].pc = "recording"
  /\ reqs[r].route = "message"
  /\ RecordUsage("message")
  /\ reqs' = [reqs EXCEPT ![r].pc = "done",
                          ![r].status = IF reqs[r].body.recipients = {} THEN 500 ELSE 200,
                          ![r].recorded = TRUE]
  /\ UNCHANGED <<evalVars, idempotencyStore, dailyTotal, actionsStarted>>

MessageThrows(r) == Caught(r, "message", {"usage", "acting", "recording"})

InitUsage ==
  /\ policy = "usage"
  /\ passport = RepoPassport
  /\ context = {}
  /\ decision = {}
  /\ evaluations = 0
  /\ allowCount = NoAllows
  /\ reqs = [r \in Requests |-> IdleUsageRequest]
  /\ idempotencyStore = {}
  /\ dailyTotal = [x \in {"payments.refund", "payments.charge"} \X Currencies |-> 0]
  /\ actionsStarted = [x \in PaymentPolicies \X Keys |-> 0]
  /\ usage = [k \in UsageKinds |-> 0]
  /\ performed = [k \in UsageKinds |-> 0]

NextUsage ==
  \E r \in Requests :
    \/ ArriveUsage(r)
    \/ RequireRoutePolicy(r)
    \/ PrChecks(r)
    \/ PrDailyLimit(r)
    \/ PrCreated(r)
    \/ PrRecorded(r)
    \/ PrThrows(r)
    \/ MergeChecks(r)
    \/ MergeDailyLimit(r)
    \/ Merged(r)
    \/ MergeRecorded(r)
    \/ MergeThrows(r)
    \/ MessageChecks(r)
    \/ MessageRateLimit(r)
    \/ MessageSent(r)
    \/ MessageRecorded(r)
    \/ MessageThrows(r)

SpecUsage == InitUsage /\ [][NextUsage]_vars

(***************************************************************************)
(* The merge route alone (specification SpecMerge): concurrent requests of *)
(* POST /repo/merge.                                                       *)
(***************************************************************************)
\* A client of the agent sends a request to POST /repo/merge.
ArriveMerge(r) ==
  /\ reqs[r].pc = "idle"
  /\ \E body \in MergeBodies :
       reqs' = [reqs EXCEPT ![r].route = "merge", ![r].pc = "policy", ![r].body = body]
  /\ UNCHANGED <<evalVars, usageVars, idempotencyStore, dailyTotal, actionsStarted>>

NextMerge ==
  \E r \in Requests :
    \/ ArriveMerge(r)
    \/ RequireRoutePolicy(r)
    \/ MergeChecks(r)
    \/ MergeDailyLimit(r)
    \/ Merged(r)
    \/ MergeRecorded(r)
    \/ MergeThrows(r)

SpecMerge == InitUsage /\ [][NextMerge]_vars

(***************************************************************************)
(* The messaging routes (specification SpecMessaging): POST /messages and  *)
(* POST /messages/broadcast, served concurrently for one agent.  A         *)
(* broadcast awaits getDailyMessageUsage, then sendMessage once per        *)
(* channel, then recordMessageUsage.                                       *)
(***************************************************************************)
MessagingRoutes == {"message", "broadcast"}

\* req.body.channels: absent, or an array of up to MaxBatch channels.
ChannelsInputs ==
  {{}} \cup {{chs} : chs \in UNION {[1..n -> {"general", "random"}] : n \in 0..MaxBatch}}

BroadcastBodies == {[channels |-> chs] : chs \in ChannelsInputs}

IdleMessagingRequest ==
  [route |-> "none", pc |-> "idle", body |-> <<>>, status |-> 0,
   acted |-> FALSE, recorded |-> FALSE, results |-> <<>>]

\* A client of the agent sends a request to one of the messaging routes.
ArriveMessaging(r) ==
  /\ reqs[r].pc = "idle"
  /\ \E route \in MessagingRoutes :
     \E body \in IF route = "message" THEN MessageBodies ELSE BroadcastBodies :
       reqs' = [reqs EXCEPT ![r].route = route, ![r].pc = "policy", ![r].body = body]
  /\ UNCHANGED <<evalVars, usageVars, idempotencyStore, dailyTotal, actionsStarted>>

\* recordMessageUsage(agent_id, count = 1)
recordMessageUsage(count) ==
  /\ usage' = [usage EXCEPT !["message"] = usage["message"] + count]
  /\ UNCHANGED performed

\* POST /messages/broadcast, up to the await of getDailyMessageUsage; reading
\* channels.length of a body without channels throws into the catch.
BroadcastEstimate(r) ==
  /\ reqs[r].pc = "handler"
  /\ reqs[r].route = "broadcast"
  /\ IF reqs[r].body.channels = {}
     THEN Respond(r, 500)
     ELSE reqs' = [reqs EXCEPT ![r].pc = "usage"]
  /\ UNCHANGED <<evalVars, usageVars, idempotencyStore, dailyTotal, actionsStarted>>

\* The pc of a broadcast that has n results of estimatedMessages.
BroadcastPc(n, estimatedMessages) ==
  IF n < estimatedMessages THEN "sending" ELSE "recording"

\* POST /messages/broadcast, from the answer of getDailyMessageUsage up to
\* the first await of sendMessage.
BroadcastDailyLimit(r) ==
  /\ reqs[r].pc = "usage"
  /\ reqs[r].route = "broadcast"
  /\ LET channels == CHOOSE chs \in reqs[r].body.channels : TRUE
         estimatedMessages == Len(channels)
         dailyUsage == DailyUsage("message")
     IN IF \E limit \in passport.limits.msgs_per_day :
             dailyUsage + estimatedMessages > limit
        THEN Respond(r, 403)
        ELSE reqs' = [reqs EXCEPT ![r].pc = BroadcastPc(0, estimatedMessages)]
  /\ UNCHANGED <<evalVars, usageVars, idempotencyStore, dailyTotal, actionsStarted>>

\* One turn of the loop over channels: sendMessage returns (sent = TRUE) or
\* rejects (sent = FALSE) for the next channel, and its result is pushed.
BroadcastSend(r, sent) ==
  /\ reqs[r].pc = "sending"
  /\ reqs[r].route = "broadcast"
  /\ LET channels == CHOOSE chs \in reqs[r].body.channels : TRUE
         channel == channels[Len(reqs[r].results) + 1]
         results == Append(reqs[r].results,
                           [channel |-> channel,
                            status |-> IF sent THEN "sent" ELSE "failed"])
     IN reqs' = [reqs EXCEPT ![r].results = results, ![r].acted = TRUE,
                             ![r].pc = BroadcastPc(Len(results), Len(channels))]
  /\ performed' = [performed EXCEPT !["message"] =
                     performed["message"] + IF sent THEN 1 ELSE 0]
  /\ UNCHANGED <<evalVars, usage, idempotencyStore, dailyTotal, actionsStarted>>

BroadcastSent(r) == BroadcastSend(r, TRUE)

BroadcastSendFailed(r) == BroadcastSend(r, FALSE)

\* recordMessageUsage(passport.agent_id, channels.length) has returned: the
\* handler answers 200 with the results.
BroadcastRecorded(r) ==
  /\ reqs[r].pc = "recording"
  /\ reqs[r].route = "broadcast"
  /\ recordMessageUsage(Len(CHOOSE chs \in reqs[r].body.channels : TRUE))
  /\ reqs' = [reqs EXCEPT ![r].pc = "done", ![r].status = 200, ![r].recorded = TRUE]
  /\ UNCHANGED <<evalVars, idempotencyStore, dailyTotal, actionsStarted>>

\* getDailyMessageUsage or recordMessageUsage rejects: the outer catch.
BroadcastThrows(r) == Caught(r, "broadcast", {"usage", "recording"})

\* total_sent / total_failed of the answer.
Total(results, status) ==
  Cardinality({i \in 1..Len(results) : results[i].status = status})

InitMessaging ==
  /\ policy = "messaging"
  /\ passport = RepoPassport
  /\ context = {}
  /\ decision = {}
  /\ evaluations = 0
  /\ allowCount = NoAllows
  /\ reqs = [r \in Requests |-> IdleMessagingRequest]
  /\ idempotencyStore = {}
  /\ dailyTotal = [x \in {"payments.refund", "payments.charge"} \X Currencies |-> 0]
  /\ actionsStarted = [x \in PaymentPolicies \X Keys |-> 0]
  /\ usage = [k \in UsageKinds |-> 0]
  /\ performed = [k \in UsageKinds |-> 0]

NextMessaging ==
  \E r \in Requests :
    \/ ArriveMessaging(r)
    \/ RequireRoutePolicy(r)
    \/ MessageChecks(r)
    \/ MessageRateLimit(r)
    \/ MessageSent(r)
    \/ MessageRecorded(r)
    \/ MessageThrows(r)
    \/ BroadcastEstimate(r)
    \/ BroadcastDailyLimit(r)
    \/ BroadcastSent(r)
    \/ BroadcastSendFailed(r)
    \/ BroadcastRecorded(r)
    \/ BroadcastThrows(r)

SpecMessaging == InitMessaging /\ [][NextMessaging]_vars

(***************************************************************************)
(* Policy verification against the backend (specification SpecVerify):     *)
(* the middleware calls verifyPolicy, which fetches the decision of        *)
(* /api/verify/policy/<policy_id>; the handler with the guarded action     *)
(* runs only for an allowed request.                                       *)
(***************************************************************************)
\* What fetch does: it resolves with an OK response carrying a decision, it
\* resolves with a non-OK response, or it rejects (network error, or the
\* abort of a call that timed out).
OkResponses ==
  {[kind |-> "response", ok |-> TRUE, status |-> 200, allow |-> TRUE, reasons |-> <<>>]}
    \cup {[kind |-> "response", ok |-> TRUE, status |-> 200, allow |-> FALSE,
           reasons |-> <<code>>] :
           code \in {"missing_required_field", "reason_code_invalid", "oap.limit_exceeded"}}

ErrorResponses ==
  {[kind |-> "response", ok |-> FALSE, status |-> st, allow |-> FALSE, reasons |-> <<>>] :
     st \in {400, 429, 500, 503}}

Rejections ==
  {[kind |-> cause, ok |-> FALSE, status |-> 0, allow |-> FALSE, reasons |-> <<>>] :
     cause \in {"network_error", "timeout"}}

NoOutcome == [kind |-> "none", ok |-> FALSE, status |-> 0, allow |-> FALSE, reasons |-> <<>>]

\* Mutant of verifyPolicy: a call that fails lets the request through.
verifyPolicyFailOpen(outcome) ==
  IF outcome.kind # "response"
  THEN [allowed |-> TRUE, code |-> {}, violations |-> <<>>]
  ELSE IF ~outcome.ok
  THEN [allowed |-> FALSE, code |-> {"policy_verification_failed"}, violations |-> <<>>]
  ELSE [allowed |-> outcome.allow, code |-> {}, violations |-> outcome.reasons]

\* verifyPolicy(agent_id, policy_id, context): {allowed, error: {code,
\* violations}} for the outcome of its fetch.
verifyPolicy(outcome) ==
  IF outcome.kind # "response"
  THEN [allowed |-> FALSE, code |-> {"policy_verification_error"}, violations |-> <<>>]
  ELSE IF ~outcome.ok
  THEN [allowed |-> FALSE, code |-> {"policy_verification_failed"}, violations |-> <<>>]
  ELSE [allowed |-> outcome.allow, code |-> {}, violations |-> outcome.reasons]

IdleVerifyRequest ==
  [route |-> "none", pc |-> "idle", status |-> 0, acted |-> FALSE,
   outcome |-> NoOutcome, result |-> {}]

\* A request arrives on a route protected by requirePolicy(policy_id).
ArriveVerify(r) ==
  /\ reqs[r].pc = "idle"
  /\ \E policy_id \in PaymentPolicies :
       reqs' = [reqs EXCEPT ![r].route = policy_id, ![r].pc = "verifying"]
  /\ UNCHANGED <<evalVars, usageVars, idempotencyStore, dailyTotal, actionsStarted>>

\* The fetch of verifyPolicy has settled with outcome.
Verified(r, outcome) ==
  /\ reqs[r].pc = "verifying"
  /\ reqs' = [reqs EXCEPT ![r].pc = "verified", ![r].outcome = outcome,
                          ![r].result = {verifyPolicy(outcome)}]
  /\ UNCHANGED <<evalVars, usageVars, idempotencyStore, dailyTotal, actionsStarted>>

\* The backend answers with a decision.
BackendDecides(r) == \E outcome \in OkResponses : Verified(r, outcome)

\* The backend answers with a non-OK status.
BackendErrors(r) == \E outcome \in ErrorResponses : Verified(r, outcome)

\* The call fails or times out.
FetchRejects(r) == \E outcome \in Rejections : Verified(r, outcome)

\* The middleware hands an allowed request to the handler, which performs
\* the guarded action.
HandlerRuns(r) ==
  /\ reqs[r].pc = "verified"
  /\ \E result \in reqs[r].result : result.allowed
  /\ reqs' = [reqs EXCEPT ![r].pc = "done", ![r].status = 200, ![r].acted = TRUE]
  /\ UNCHANGED <<evalVars, usageVars, idempotencyStore, dailyTotal, actionsStarted>>

\* The middleware answers a request that is not allowed: 403 for a policy
\* denial, 500 for a verification that failed.
VerificationDenied(r) ==
  /\ reqs[r].pc = "verified"
  /\ \E result \in reqs[r].result :
       /\ ~result.allowed
       /\ Respond(r, IF result.code = {} THEN 403 ELSE 500)
  /\ UNCHANGED <<evalVars, usageVars, idempotencyStore, dailyTotal, actionsStarted>>

InitVerify ==
  /\ policy = "verify"
  /\ passport = PaymentsPassport
  /\ context = {}
  /\ decision = {}
  /\ evaluations = 0
  /\ allowCount = NoAllows
  /\ reqs = [r \in Requests |-> IdleVerifyRequest]
  /\ idempotencyStore = {}
  /\ dailyTotal = [x \in {"payments.refund", "payments.charge"} \X Currencies |-> 0]
  /\ actionsStarted = [x \in PaymentPolicies \X Keys |-> 0]
  /\ usage = [k \in UsageKinds |-> 0]
  /\ performed = [k \in UsageKinds |-> 0]

NextVerify ==
  \E r \in Requests :
    \/ ArriveVerify(r)
    \/ BackendDecides(r)
    \/ BackendErrors(r)
    \/ FetchRejects(r)
    \/ HandlerRuns(r)
    \/ VerificationDenied(r)

SpecVerify == InitVerify /\ [][NextVerify]_vars

(***************************************************************************)
(* Claims about single evaluations (specification Spec).                   *)
(***************************************************************************)
\* The evaluator of a policy.
Evaluate(pol, p, c) ==
  CASE pol = "finance" -> evaluateFinanceTransactionExecuteV1(p, c)
    [] pol = "governance" -> evaluateGovernanceDataAccessV1(p, c)
    [] pol = "legal" -> evaluateLegalContractReviewV1(p, c)

\* Position of an assurance level on the scale L0<L1<L2<L3<L4KYC/L4FIN; a
\* missing level is below every level.
Rank(level) ==
  IF level = {"L0"} THEN 0
  ELSE IF level = {"L1"} THEN 1
  ELSE IF level = {"L2"} THEN 2
  ELSE IF level = {"L3"} THEN 3
  ELSE IF level \in {{"L4KYC"}, {"L4FIN"}} THEN 4
  ELSE -1

\* The four fixed checks, as the claims state them.
StatusCheckFails == passport.status \in {{"suspended"}, {"revoked"}}

CapabilityCheckFails ==
  \A caps \in passport.capabilities : CapabilityOf(policy) \notin caps

AssuranceCheckFails ==
  LET configured == passport.limits.v.require_assurance_at_least
      required == IF configured = {} THEN {"L3"} ELSE configured
  IN Rank(passport.assurance_level) < Rank(required)

ContextCheckFails ==
  \E i \in 1..Len(RequiredFieldsOf(policy)) :
    context[RequiredFieldsOf(policy)[i]] = {}

FailingFixedChecks ==
  SelectSeq(<<"oap.passport_suspended", "oap.unknown_capability",
              "oap.assurance_insufficient", "oap.invalid_context">>,
            LAMBDA code :
              \/ code = "oap.passport_suspended" /\ StatusCheckFails
              \/ code = "oap.unknown_capability" /\ CapabilityCheckFails
              \/ code = "oap.assurance_insufficient" /\ AssuranceCheckFails
              \/ code = "oap.invalid_context" /\ ContextCheckFails)

FixedCodes ==
  {"oap.passport_suspended", "oap.unknown_capability",
   "oap.assurance_insufficient", "oap.invalid_context"}

\* C1 (as claimed): an evaluator returns allow=true only for a passport whose
\* status is "active".
C1_AllowOnlyIfActive ==
  \A d \in decision : d.allow => passport.status = {"active"}

\* C2: when more than one of the four fixed checks fails, the reason code is
\* that of the earliest failing check in the order status, capability,
\* assurance, required fields; and while any of the four fails the decision
\* is a deny carrying one of the four fixed codes, never a policy-specific one.
C2_FixedPrecedence ==
  \A d \in decision :
    /\ Len(FailingFixedChecks) > 1 =>
         ~d.allow /\ d.reasons[1].code = FailingFixedChecks[1]
    /\ Len(FailingFixedChecks) > 0 =>
         ~d.allow /\ d.reasons[1].code \in FixedCodes

\* Witness of C2: a revoked passport without the capability, on a context
\* with a missing field, has been evaluated.
C2_Witness ==
  /\ decision # {}
  /\ passport.status = {"revoked"}
  /\ CapabilityCheckFails
  /\ ContextCheckFails
  /\ Len(FailingFixedChecks) >= 3

\* C3 (as claimed): every allow of the finance and governance evaluators is
\* for a passport at L3, L4KYC or L4FIN, whatever its limits contain.
C3_AllowNeedsL3 ==
  \A d \in decision :
    (policy \in {"finance", "governance"} /\ d.allow) =>
      passport.assurance_level \in {{"L3"}, {"L4KYC"}, {"L4FIN"}}

\* C4 (as claimed): if the passport is allowed, the same passport at any
\* assurance level at or above its own is allowed for the same context.
C4_MonotonicAssurance ==
  \A d \in decision :
    d.allow =>
      \A higher \in AssuranceInputs :
        Rank(higher) >= Rank(passport.assurance_level) =>
          Evaluate(policy, [passport EXCEPT !.assurance_level = higher], context).allow

(***************************************************************************)
(* Claims about a day of evaluations (specification SpecLegalDay).         *)
(***************************************************************************)
AllowedToday == allowCount["key-1"] + allowCount["key-2"]

\* C5 (as claimed): once an evaluation with an idempotency key has produced
\* an allow decision, every later evaluation with the same key is denied with
\* oap.idempotency_conflict; a key is never allowed twice.
C5_KeyAllowedOnce ==
  /\ \A k \in DOMAIN allowCount : allowCount[k] <= 1
  /\ \A d \in decision : \A k \in DOMAIN allowCount :
       (context.idempotency_key = {k} /\ allowCount[k] > (IF d.allow THEN 1 ELSE 0)) =>
         ~d.allow /\ d.reasons[1].code = "oap.idempotency_conflict"

\* C8 (as claimed): the number of allowed contract reviews of the day never
\* exceeds the passport limit max_contracts_per_day.
C8_DailyContractLimit ==
  \A m \in passport.limits.v.max_contracts_per_day : AllowedToday <= m

(***************************************************************************)
(* Claims about the payment routes (specification SpecPayments).           *)
(***************************************************************************)
\* C6 (as claimed): of the requests of one agent that carry the same
\* idempotency key, at most one proceeds to the guarded business action
\* (processRefund / processCharge / processTransaction).
C6_NoDoubleProcessing ==
  \A x \in DOMAIN actionsStarted : actionsStarted[x] <= 1

\* C7 (as claimed): the total amount processed in a currency within the day
\* never exceeds that currency's daily_cap in the passport.
C7_DailyCap ==
  \A cur \in Currencies :
    /\ \A cap \in RefundDailyCap(passport, cur) :
         dailyTotal[<<"payments.refund", cur>>] <= cap
    /\ \A cap \in ChargeDailyCap(passport, cur) :
         dailyTotal[<<"payments.charge", cur>>] <= cap

(***************************************************************************)
(* Claims about the usage counters of the repository and messaging         *)
(* handlers (specification SpecUsage).                                     *)
(***************************************************************************)
\* C9 (as claimed): under every interleaving of concurrent POST /repo/pr
\* requests of one agent, the number of pull requests created within the day
\* never exceeds passport.limits.max_prs_per_day.
C9_PrDailyLimit ==
  \A limit \in passport.limits.max_prs_per_day : performed["pr"] <= limit

\* C10 (as claimed): the usage of a request is recorded only after its
\* guarded action has completed, and a request answered 403, 429 or 500 has
\* left the usage counters unchanged.
C10_UsageOnlyForActions ==
  \A r \in Requests :
    /\ reqs[r].recorded => reqs[r].acted
    /\ reqs[r].status \in {403, 429, 500} => ~reqs[r].recorded

(***************************************************************************)
(* Claims about limits (specification SpecLimits).                         *)
(***************************************************************************)
\* The passport has no limits object, or leaves out a limit its policy lists
\* as required.
RequiredLimitOmitted ==
  \/ passport.limits.shape = "none"
  \/ \E f \in RequiredLimitsOf(policy) : passport.limits.v[f] = {}

\* C11 (as claimed): a passport that omits a limit its policy lists as
\* required is never allowed.
C11_FailClosedOnMissingLimits ==
  \A d \in decision : RequiredLimitOmitted => ~d.allow

\* C12: every deny decision of the three evaluators carries exactly one
\* reason, of severity error, which is the code of the first failing check;
\* no later check adds a reason.
C12_SoleReason ==
  \A d \in decision :
    ~d.allow =>
      /\ Len(d.reasons) = 1
      /\ d.reasons[1].severity = "error"
      /\ d.reasons[1].code # "oap.allowed"
      /\ Len(FailingFixedChecks) > 0 => d.reasons[1].code = FailingFixedChecks[1]

\* Witness of C12: a finance evaluation in which the transaction type, the
\* asset class and the exposure checks all fail has been denied.
C12_Witness ==
  \E d \in decision :
    /\ ~d.allow
    /\ policy = "finance"
    /\ passport.limits = [shape |-> "nested", v |-> TypicalLimits("finance")]
    /\ context.transaction_type = {"short_sell"}
    /\ context.asset_class = {"crypto"}
    /\ context.amount = {MaxAmount}

OmittedFields == {f \in Range(RequiredFieldsOf(policy)) : context[f] = {}}

C15_AmountPositive ==
  \A d \in decision :
    (policy = "finance" /\ \E a \in context.amount : a <= 0) => ~d.allow

\* The decision is a deny with the given code.
DeniedWith(d, code) == ~d.allow /\ d.reasons[1].code = code

\* A value equal to the limit is not denied by the limit's check, and a
\* value of limit + 1 is denied.
BoundaryRespected(d, value, limit, code) ==
  \A m \in limit :
    /\ value = {m} => ~DeniedWith(d, code)
    /\ value = {m + 1} => ~d.allow

\* C16 (as claimed): for every numeric limit check of the evaluators, a value
\* exactly equal to the configured limit passes the check and limit + 1 is
\* denied.
C16_NumericBoundaries ==
  \A d \in decision :
    passport.limits.shape = "nested" =>
      CASE policy = "finance" ->
             /\ BoundaryRespected(d, context.amount,
                                  passport.limits.v.max_exposure_per_tx_usd,
                                  "oap.limit_exceeded")
             /\ context.counterparty_id # {} =>
                  BoundaryRespected(d, context.amount,
                                    passport.limits.v.max_exposure_per_counterparty_usd,
                                    "oap.counterparty_limit_exceeded")
        [] policy = "governance" ->
             /\ BoundaryRespected(d, context.row_count,
                                  passport.limits.v.max_rows_per_export,
                                  "oap.row_limit_exceeded")
             /\ BoundaryRespected(d, context.account_balance_usd,
                                  passport.limits.v.balance_inquiry_cap_usd,
                                  "oap.balance_inquiry_forbidden")
        [] policy = "legal" ->
             BoundaryRespected(d, context.document_size_mb,
                               passport.limits.v.max_document_size_mb,
                               "oap.document_size_exceeded")

\* The deny code of each allowlist check.
AllowlistCode(f) ==
  CASE f = "allowed_transaction_types" -> "oap.action_forbidden"
    [] f = "allowed_asset_classes" -> "oap.asset_class_forbidden"
    [] f = "allowed_classifications" -> "oap.classification_forbidden"
    [] f = "allowed_document_types" -> "oap.document_type_forbidden"

\* C17 (as claimed): with an allowlist equal to ["*"], no context value is
\* denied by that allowlist's check.
C17_WildcardAllowlist ==
  \A d \in decision : \A f \in WildcardFieldsOf(policy) :
    (passport.limits.shape = "nested" /\ passport.limits.v[f] = {{"*"}}) =>
      ~DeniedWith(d, AllowlistCode(f))

\* The passport with the same limits stored in the other shape.
OtherShape(p) ==
  [p EXCEPT !.limits.shape = IF p.limits.shape = "nested" THEN "flat" ELSE "nested"]

\* C18 (as claimed): a passport whose limits are stored flat gets, for every
\* context, the same decision as the passport with the same limits stored
\* nested.
C18_NestedFlatEquivalent ==
  \A d \in decision :
    passport.limits.shape \in {"nested", "flat"} =>
      d = Evaluate(policy, OtherShape(passport), context)

(***************************************************************************)
(* Claims about high-value contracts (specification SpecLimits).           *)
(***************************************************************************)
\* The legal evaluation got past the fixed checks and the document type,
\* size and jurisdiction checks.
EarlierLegalChecksPass(d) ==
  \A code \in FixedCodes \cup {"oap.document_type_forbidden",
                               "oap.document_size_exceeded",
                               "oap.jurisdiction_blocked"} :
    ~DeniedWith(d, code)

\* The contract value is above the high-value threshold.
OverThreshold == \E v \in context.contract_value_usd : v > HighValueThreshold

\* C19: once the earlier checks pass, a contract above the threshold without
\* attorney_reviewer_id is denied with oap.high_value_review_required, also
\* when require_attorney_review is set; oap.attorney_review_required is
\* returned only for a contract that is not above the threshold.
C19_HighValuePrecedence ==
  \A d \in decision :
    (policy = "legal" /\ EarlierLegalChecksPass(d)) =>
      /\ (OverThreshold /\ context.attorney_reviewer_id = {}) =>
           DeniedWith(d, "oap.high_value_review_required")
      /\ DeniedWith(d, "oap.attorney_review_required") => ~OverThreshold

\* Witness of C19: a contract above the threshold without attorney, under a
\* passport that requires attorney review, has been denied as high-value.
C19_Witness ==
  \E d \in decision :
    /\ policy = "legal"
    /\ OverThreshold
    /\ context.attorney_reviewer_id = {}
    /\ passport.limits.shape = "nested"
    /\ passport.limits.v.require_attorney_review = {TRUE}
    /\ DeniedWith(d, "oap.high_value_review_required")

\* C20 (as claimed): oap.high_value_review_required is returned only when
\* contract_value_usd is strictly greater than 1,000,000.
C20_StrictThreshold ==
  \A d \in decision :
    (policy = "legal" /\ DeniedWith(d, "oap.high_value_review_required")) =>
      OverThreshold

(***************************************************************************)
(* Claims about account types (specifications SpecFinance and Spec).       *)
(***************************************************************************)
\* The context is a transfer from client funds to a proprietary account.
Commingling ==
  /\ context.source_account_type = {"client_funds"}
  /\ context.destination_account_type = {"proprietary"}

\* C21: no allow decision is returned for a context with source_account_type
\* "client_funds" and destination_account_type "proprietary", whatever the
\* passport and its limits.
C21_SegregationOfFunds ==
  \A d \in decision : (policy = "finance" /\ Commingling) => ~d.allow

\* Witness of C21: such a transfer reached the segregation check, under a
\* passport whose limits are absent, and was denied by it.
C21_Witness ==
  \E d \in decision :
    /\ policy = "finance"
    /\ Commingling
    /\ passport.limits.shape = "none"
    /\ DeniedWith(d, "oap.commingling_of_funds_forbidden")

(***************************************************************************)
(* Claims about the messaging routes (specification SpecMessaging).        *)
(***************************************************************************)
\* The channels sendMessage has been called for by request r.
ChannelsSentTo(r) ==
  IF reqs[r].route = "message"
  THEN (IF reqs[r].acted THEN reqs[r].body.channel ELSE {})
  ELSE {reqs[r].results[i].channel : i \in 1..Len(reqs[r].results)}

\* C22 (as claimed): on both messaging routes, sendMessage is never called
\* for a channel outside the passport's non-empty channels_allowlist.
C22_ChannelAllowlistOnEveryRoute ==
  \A r \in Requests : \A allowed \in passport.capabilities.message.channels_allowlist :
    (reqs[r].route \in MessagingRoutes /\ allowed # {}) =>
      ChannelsSentTo(r) \subseteq allowed

(***************************************************************************)
(* Claims about the merge route (specification SpecMerge).                 *)
(***************************************************************************)
\* mergePullRequest has been called for request r.
MergeCalled(r) ==
  reqs[r].route = "merge" /\ (reqs[r].pc \in {"acting", "recording"} \/ reqs[r].acted)

\* The pull request of request r satisfies the merge parameters.
MergeParametersMet(r, prDetails) ==
  LET params == passport.capabilities.merge IN
  /\ \A allowed \in params.allowed_repos : reqs[r].body.repo \subseteq allowed
  /\ \A allowed \in params.allowed_base_branches : prDetails.base_branch \subseteq allowed
  /\ \A required \in params.required_labels : required \subseteq prDetails.labels
  /\ \A required \in params.required_reviews : prDetails.approvals >= required
  /\ \A limit \in passport.limits.max_pr_size_kb : prDetails.size_kb <= limit

\* The daily usage read by request r is below max_merges_per_day.
BelowDailyMerges(dailyUsage) ==
  \A limit \in passport.limits.max_merges_per_day : dailyUsage < limit

\* The handler of request r has found a failing merge parameter or a daily
\* usage at the limit.
MergeGuardFails(r) ==
  \/ \E prDetails \in reqs[r].prDetails : ~MergeParametersMet(r, prDetails)
  \/ \E dailyUsage \in reqs[r].dailyUsage : ~BelowDailyMerges(dailyUsage)

\* C23: mergePullRequest is called only for a pull request that satisfies the
\* allowlists, labels, reviews and size of the passport, with a daily usage
\* read below max_merges_per_day; a request whose pull request or daily
\* usage fails one of them is answered 403 without a merge.
C23_MergeGuard ==
  \A r \in Requests :
    reqs[r].route = "merge" =>
      /\ MergeCalled(r) =>
           /\ \E prDetails \in reqs[r].prDetails : MergeParametersMet(r, prDetails)
           /\ \E dailyUsage \in reqs[r].dailyUsage : BelowDailyMerges(dailyUsage)
      /\ MergeGuardFails(r) => (reqs[r].status = 403 /\ ~MergeCalled(r))

\* Witness of C23: one request has merged its pull request and another one
\* has been answered 403 for a pull request without the required label.
C23_Witness ==
  \E r, q \in Requests :
    /\ reqs[r].route = "merge" /\ reqs[r].acted
    /\ reqs[q].route = "merge" /\ reqs[q].status = 403
    /\ \E prDetails \in reqs[q].prDetails : prDetails.labels = {}

(***************************************************************************)
(* Claims about policy verification (specification SpecVerify).            *)
(***************************************************************************)
\* C24: when the backend answers with a non-OK status, or the call fails or
\* times out, the verification returns allowed = false with the code
\* policy_verification_failed (non-OK answer) or policy_verification_error
\* (failed call), without policy violations, and the guarded action is not
\* performed.
C24_BackendFailureFailsClosed ==
  \A r \in Requests : \A result \in reqs[r].result :
    (reqs[r].outcome.kind # "response" \/ ~reqs[r].outcome.ok) =>
      /\ ~result.allowed
      /\ result.code = IF reqs[r].outcome.kind = "response"
                       THEN {"policy_verification_failed"}
                       ELSE {"policy_verification_error"}
      /\ result.violations = <<>>
      /\ ~reqs[r].acted

\* Witness of C24: one request whose verification timed out and one whose
\* verification was answered 500 have both been answered, without action.
C24_Witness ==
  \E r, q \in Requests :
    /\ reqs[r].outcome.kind = "timeout" /\ reqs[r].pc = "done"
    /\ reqs[q].outcome.kind = "response" /\ reqs[q].outcome.status = 500
    /\ reqs[q].pc = "done" /\ ~reqs[q].acted

C26_ReadOnly ==
  [][/\ passport' = passport
     /\ evaluations' # evaluations => context' = context]_vars

\* Witness of C26: a passport with flat limits has been evaluated a second
\* time, with a deny.
C26_Witness ==
  \E d \in decision :
    /\ evaluations >= 2
    /\ ~d.allow
    /\ policy = "finance"
    /\ passport.limits.shape = "flat"

(***************************************************************************)
(* Claims about the order of the finance checks (specification             *)
(* SpecFinance).                                                           *)
(***************************************************************************)
\* The policy-specific checks of the finance policy that the context fails
\* under the passport's limits, as <<position, code>>.
FailingFinanceChecks ==
  LET types == OrEmpty(Limit(passport, "allowed_transaction_types"))
      classes == OrEmpty(Limit(passport, "allowed_asset_classes"))
      restricted == OrEmpty(Limit(passport, "restricted_source_account_types"))
      sources == OrEmpty(Limit(passport, "allowed_source_account_types"))
      src == context.source_account_type
      Over(limit) == \E m \in Limit(passport, limit) : \E a \in context.amount :
                       m # 0 /\ a > m
  IN {ch \in {<<1, "oap.action_forbidden">>, <<2, "oap.asset_class_forbidden">>,
              <<3, "oap.limit_exceeded">>, <<4, "oap.account_type_restricted">>,
              <<5, "oap.account_type_restricted">>,
              <<6, "oap.commingling_of_funds_forbidden">>,
              <<7, "oap.counterparty_limit_exceeded">>} :
        CASE ch[1] = 1 -> types # {} /\ ~(context.transaction_type \subseteq types)
          [] ch[1] = 2 -> classes # {} /\ ~(context.asset_class \subseteq classes)
          [] ch[1] = 3 -> Over("max_exposure_per_tx_usd")
          [] ch[1] = 4 -> src # {} /\ src \subseteq restricted
          [] ch[1] = 5 -> sources # {} /\ src # {} /\ ~(src \subseteq sources)
          [] ch[1] = 6 -> Commingling
          [] ch[1] = 7 -> context.counterparty_id # {}
                           /\ Over("max_exposure_per_counterparty_usd")}

\* C27: once the fixed checks pass, the decision is allow when no
\* policy-specific check fails, and otherwise a deny with the code of the
\* first failing check in the order transaction type, asset class,
\* per-transaction exposure, restricted source, allowed source, commingling,
\* counterparty exposure.
C27_FinanceCheckOrder ==
  \A d \in decision :
    (policy = "finance" /\ \A code \in FixedCodes : ~DeniedWith(d, code)) =>
      IF FailingFinanceChecks = {} THEN d.allow
      ELSE \E first \in FailingFinanceChecks :
             /\ \A other \in FailingFinanceChecks : first[1] <= other[1]
             /\ DeniedWith(d, first[2])

\* Witness of C27: a transfer from client funds to a proprietary account
\* whose source type is restricted has been denied with
\* oap.account_type_restricted.
C27_Witness ==
  \E d \in decision :
    /\ policy = "finance"
    /\ Commingling
    /\ <<4, "oap.account_type_restricted">> \in FailingFinanceChecks
    /\ <<6, "oap.commingling_of_funds_forbidden">> \in FailingFinanceChecks
    /\ DeniedWith(d, "oap.account_type_restricted")

(***************************************************************************)
(* Claims about the idempotency rule (specification SpecLimits).           *)
(***************************************************************************)
\* C28: evaluateLegalContractReviewV1 never returns oap.idempotency_conflict:
\* a context without idempotency_key is already denied with
\* oap.invalid_context.
C28_IdempotencyRuleUnreachable ==
  \A d \in decision :
    policy = "legal" =>
      /\ ~DeniedWith(d, "oap.idempotency_conflict")
      /\ (context.idempotency_key = {} /\ \A code \in FixedCodes \ {"oap.invalid_context"} :
                                             ~DeniedWith(d, code))
           => DeniedWith(d, "oap.invalid_context")

\* Witness of C28: a context without idempotency_key, and nothing else
\* missing, has been denied under a passport with idempotency_required.
C28_Witness ==
  \E d \in decision :
    /\ policy = "legal"
    /\ passport.limits.shape = "nested"
    /\ passport.limits.v.idempotency_required = {TRUE}
    /\ OmittedFields = {"idempotency_key"}
    /\ DeniedWith(d, "oap.invalid_context")

(***************************************************************************)
(* Claims about the assurance rule (specification Spec).                   *)
(***************************************************************************)
\* The evaluator of policy pol finds the assurance of the passport
\* insufficient, the passport holding the capability of pol and the context
\* being valid.
AssuranceInsufficientFor(pol) ==
  DeniedWith(Evaluate(pol, [passport EXCEPT !.capabilities = {{CapabilityOf(pol)}}],
                      ValidContext(pol)),
             "oap.assurance_insufficient")

\* C29 (as claimed): for every assurance level of the passport and every
\* required level among L0, L1, L2, L3, L4KYC and L4FIN, the three evaluators
\* agree on whether the assurance is sufficient.
C29_SameAssuranceRule ==
  \A d \in decision :
    (/\ passport.status = {"active"}
     /\ HasCapability(passport, CapabilityOf(policy))
     /\ passport.assurance_level # {}
     /\ passport.limits.v.require_assurance_at_least # {}) =>
      \A other \in Policies :
        DeniedWith(d, "oap.assurance_insufficient") <=> AssuranceInsufficientFor(other)

(***************************************************************************)
(* Claims about broadcasts (specification SpecMessaging).                  *)
(***************************************************************************)
\* The channels requested by the broadcast r.
RequestedChannels(r) ==
  IF reqs[r].body.channels = {} THEN <<>> ELSE CHOOSE chs \in reqs[r].body.channels : TRUE

\* C30 (as claimed): the results of a broadcast are those of its channels in
\* request order, one per channel attempted; an answered broadcast has
\* attempted every channel, so that total_sent + total_failed is the number
\* of requested channels; and once the broadcast has recorded its usage, the
\* recorded daily usage is at most msgs_per_day.
C30_BroadcastAccounting ==
  \A r \in Requests :
    reqs[r].route = "broadcast" =>
      LET channels == RequestedChannels(r)
          results == reqs[r].results
      IN /\ Len(results) <= Len(channels)
         /\ \A i \in 1..Len(results) : results[i].channel = channels[i]
         /\ reqs[r].status = 200 =>
              Total(results, "sent") + Total(results, "failed") = Len(channels)
         /\ reqs[r].recorded =>
              \A limit \in passport.limits.msgs_per_day : usage["message"] <= limit

====
